---- MODULE Spec2Model ----
(***************************************************************************)
(* Model of AwsSqsTrigger.trigger(): option validation and request         *)
(* building at start, the self-rearming timer (run / rearm /               *)
(* closeFunction) and one poll cycle (executeTrigger).                     *)
(*                                                                         *)
(* JavaScript runs a callback to its next await without interleaving, so   *)
(* each action is one such run-to-suspension: the timer callback up to the *)
(* receive request, the continuation of the receive up to the delete       *)
(* request or to the end of the cycle, the continuation of the delete to   *)
(* the end of the cycle, and the host's calls of trigger() and             *)
(* closeFunction().  Timer delays are not measured: a pending timer may    *)
(* fire at any later moment.                                               *)
(*                                                                         *)
(* An optional value of the options collection is a set: {} when the       *)
(* option is not set, {v} when it is set to v.                             *)
(***************************************************************************)
EXTENDS Integers, Sequences, FiniteSets, TLC

VARIABLES
    phase,                  \* "init" before trigger(), "started" once it returned, "failed" when it threw
    interval,               \* node parameter 'interval'
    unit,                   \* node parameter 'unit'
    options,                \* node parameter 'options'
    startError,             \* the error trigger() threw, "none" otherwise
    receiveMessageParams,   \* the query parameters of the receive request
    intervalValue,          \* the delay of rearm(), in milliseconds
    running,
    inFlight,
    intervalObj,            \* the timer handle closeFunction() clears
    timers,                 \* the pending timers: records [id, delay]
    pc,                     \* position of executeTrigger: "idle", "receive", "delete"
    active,                 \* number of executeTrigger invocations that have not completed
    messagesArray,          \* the messages of the cycle in progress (or of the last one)
    calls,                  \* what the cycle in progress (or the last one) did, in order
    response,               \* the parsed response of the receive request of that cycle
    stopCalls,              \* number of calls of closeFunction()
    thrownBy,               \* the call that raised in that cycle: "none", "receive", "delete", "emit"
    escaped                 \* an error left executeTrigger in that cycle

vars == <<phase, interval, unit, options, startError, receiveMessageParams,
          intervalValue, running, inFlight, intervalObj, timers, pc, active,
          messagesArray, calls, response, stopCalls, thrownBy, escaped>>

config == <<interval, unit, options>>

(* ---------------------------- bounds ----------------------------------- *)

\* the longest receive response
MaxMessages == 3

\* the calls of closeFunction() the host makes
MaxStopCalls == 2

(* ------------------------- program constants --------------------------- *)

MaxVisibilityTimeout == 43200
MaxMaxNumberOfMessages == 10
MaxWaitTimeSeconds == 20
MaxTimerDelay == 2147483647

(* ------------------------------ inputs --------------------------------- *)

Intervals == {-1, 0, 1, 596, 597}
Units == {"seconds", "minutes", "hours"}
VisibilityTimeouts == {{}, {0}, {43200}, {50000}, {-1}}
MaxNumbersOfMessages == {{}, {0}, {-1}, {10}, {11}}
WaitTimes == {{}, {0}, {20}, {21}, {-1}}
DeleteMessagesValues == {{}, {TRUE}, {FALSE}}

\* a receipt handle is a sequence of characters
ReceiptHandles == {<<"A", "b">>, <<"A", "+", "/">>}

Messages == {[Body |-> "m1", ReceiptHandle |-> <<"A", "b">>],
             [Body |-> "m2", ReceiptHandle |-> <<"A", "+", "/">>]}

\* The parsed XML of a receive response holds no Message element, one
\* Message element (an object) or several (an array of two or more).
\* no response yet
Pending == [kind |-> "pending"]

NoMessage == [kind |-> "none"]
OneMessage(m) == [kind |-> "object", Message |-> m]
ManyMessages(s) == [kind |-> "array", Message |-> s]

MessageArrays == UNION {[1..n -> Messages] : n \in 2..MaxMessages}

(* ------------------------------ helpers -------------------------------- *)

\* JavaScript truthiness of an optional number: undefined and 0 are falsy
Truthy(o) == \E v \in o : v # 0

Value(o) == CHOOSE v \in o : TRUE

\* JavaScript truthiness of an optional boolean
IsTrue(o) == TRUE \in o

\* encodeURIComponent on one character
EncodeChar(c) ==
    CASE c = "+" -> "%2B"
      [] c = "/" -> "%2F"
      [] c = "=" -> "%3D"
      [] OTHER -> c

RECURSIVE encodeURIComponent(_)
encodeURIComponent(s) ==
    IF s = <<>> THEN ""
    ELSE EncodeChar(Head(s)) \o encodeURIComponent(Tail(s))


(* ----------------------------- trigger() ------------------------------- *)

BaseReceiveMessageParams ==
    << <<"Version", "2012-11-05">>, <<"Action", "ReceiveMessage">>,
       <<"MessageAttributeName", "All">>, <<"AttributeName", "All">> >>

\* the range check without its upper bound
VisibilityTimeoutNoUpperBound(opts) ==
    /\ Truthy(opts.visibilityTimeout)
    /\ Value(opts.visibilityTimeout) < 0

VisibilityTimeoutInvalid(opts) ==
    /\ Truthy(opts.visibilityTimeout)
    /\ \/ Value(opts.visibilityTimeout) < 0
       \/ Value(opts.visibilityTimeout) > MaxVisibilityTimeout

MaxNumberOfMessagesInvalid(opts) ==
    /\ Truthy(opts.maxNumberOfMessages)
    /\ \/ Value(opts.maxNumberOfMessages) < 1
       \/ Value(opts.maxNumberOfMessages) > MaxMaxNumberOfMessages

WaitTimeSecondsInvalid(opts) ==
    /\ Truthy(opts.waitTimeSeconds)
    /\ \/ Value(opts.waitTimeSeconds) < 0
       \/ Value(opts.waitTimeSeconds) > MaxWaitTimeSeconds

\* receiveMessageParams when no check throws
BuildReceiveMessageParams(opts) ==
    BaseReceiveMessageParams
    \o (IF Truthy(opts.visibilityTimeout)
        THEN << <<"VisibilityTimeout", ToString(Value(opts.visibilityTimeout))>> >>
        ELSE <<>>)
    \o (IF Truthy(opts.maxNumberOfMessages)
        THEN << <<"MaxNumberOfMessages", ToString(Value(opts.maxNumberOfMessages))>> >>
        ELSE <<>>)
    \o (IF Truthy(opts.waitTimeSeconds)
        THEN << <<"WaitTimeSeconds", ToString(Value(opts.waitTimeSeconds))>> >>
        ELSE <<>>)

UnitFactor(u) ==
    CASE u = "minutes" -> 60
      [] u = "hours" -> 60 * 60
      [] OTHER -> 1

Max(a, b) == IF a >= b THEN a ELSE b

\* intervalValue without line 239: the wait time does not raise it
IntervalSecondsNoWait(i, u, opts) == i * UnitFactor(u)

\* intervalValue before it is scaled to milliseconds
IntervalSeconds(i, u, opts) ==
    Max(i * UnitFactor(u),
        IF Truthy(opts.waitTimeSeconds) THEN Value(opts.waitTimeSeconds) ELSE 0)

\* intervalValue * 1000 > 2147483647, decided on the seconds so that the
\* product is only formed when it fits the timer's 32 bits
IntervalTooLarge(i, u, opts) ==
    IntervalSeconds(i, u, opts) > MaxTimerDelay \div 1000

\* the checks of trigger() without the one of the interval
StartErrorNoIntervalCheck(i, u, opts) ==
    CASE VisibilityTimeoutInvalid(opts) -> "visibilityTimeout"
      [] MaxNumberOfMessagesInvalid(opts) -> "maxNumberOfMessages"
      [] WaitTimeSecondsInvalid(opts) -> "waitTimeSeconds"
      [] IntervalTooLarge(i, u, opts) -> "intervalTooLarge"
      [] OTHER -> "none"

\* the first check of trigger() that throws, in source order
StartError(i, u, opts) ==
    CASE VisibilityTimeoutInvalid(opts) -> "visibilityTimeout"
      [] MaxNumberOfMessagesInvalid(opts) -> "maxNumberOfMessages"
      [] WaitTimeSecondsInvalid(opts) -> "waitTimeSeconds"
      [] i <= 0 -> "interval"
      [] IntervalTooLarge(i, u, opts) -> "intervalTooLarge"
      [] OTHER -> "none"

(* ------------------------------ timers --------------------------------- *)

TimerIds(ts) == {t.id : t \in ts}

\* setTimeout returns a handle that is distinct from every pending one and
\* from the one still referenced
FreshId(ts, ref) ==
    CHOOSE i \in 1..(Cardinality(ts) + 2) :
        /\ i \notin TimerIds(ts) \cup {ref}
        /\ \A j \in 1..(i - 1) : j \in TimerIds(ts) \cup {ref}

\* setTimeout(run, delay) on the pending timers ts
SetTimeout(ts, ref, delay) == ts \cup {[id |-> FreshId(ts, ref), delay |-> delay]}

\* clearTimeout(ref)
ClearTimeout(ts, ref) == {t \in ts : t.id # ref}

\* rearm() without the test of running
rearmAlways(ts) ==
    /\ timers' = SetTimeout(ts, intervalObj, intervalValue)
    /\ intervalObj' = FreshId(ts, intervalObj)

\* rearm() that drops the handle of the new timer
rearmNoAssign(ts) ==
    IF running
    THEN /\ timers' = SetTimeout(ts, intervalObj, intervalValue)
         /\ intervalObj' = intervalObj
    ELSE /\ timers' = ts
         /\ intervalObj' = intervalObj

\* rearm() with ts the pending timers
rearm(ts) ==
    IF running
    THEN /\ timers' = SetTimeout(ts, intervalObj, intervalValue)
         /\ intervalObj' = FreshId(ts, intervalObj)
    ELSE /\ timers' = ts
         /\ intervalObj' = intervalObj

(* -------------------------- executeTrigger ----------------------------- *)

Event(op, arg) == [op |-> op, arg |-> arg]

ReceiveCall == Event("receive", receiveMessageParams)

LogError == Event("log", <<"[SQS] receive/delete failed">>)

\* returnMessages built by a loop that stops one short
ReturnMessagesDropLast(msgs) == [i \in 1..(Len(msgs) - 1) |-> [json |-> msgs[i]]]

\* returnMessages
ReturnMessages(msgs) == [i \in 1..Len(msgs) |-> [json |-> msgs[i]]]

\* this.emit([returnMessages])
EmitCall(msgs) == Event("emit", ReturnMessages(msgs))

\* messagesArray of a response that holds messages
Normalize(resp) ==
    IF resp.kind = "array" THEN resp.Message ELSE <<resp.Message>>

BatchEntry(i) == "DeleteMessageBatchRequestEntry." \o ToString(i)

\* deleteMessagesParams with the batch ids counted from 0
DeleteMessagesParamsZeroBased(msgs) ==
    IF Len(msgs) > 1
    THEN << <<"Version", "2012-11-05">>, <<"Action", "DeleteMessageBatch">> >>
         \o [k \in 1..(2 * Len(msgs)) |->
                LET i == (k + 1) \div 2 IN
                IF k % 2 = 1
                THEN <<BatchEntry(i) \o ".Id", "msg" \o ToString(i - 1)>>
                ELSE <<BatchEntry(i) \o ".ReceiptHandle",
                       encodeURIComponent(msgs[i].ReceiptHandle)>>]
    ELSE << <<"Version", "2012-11-05">>, <<"Action", "DeleteMessage">>,
            <<"ReceiptHandle", encodeURIComponent(msgs[1].ReceiptHandle)>> >>

\* deleteMessagesParams
DeleteMessagesParams(msgs) ==
    IF Len(msgs) > 1
    THEN << <<"Version", "2012-11-05">>, <<"Action", "DeleteMessageBatch">> >>
         \o [k \in 1..(2 * Len(msgs)) |->
                LET i == (k + 1) \div 2 IN
                IF k % 2 = 1
                THEN <<BatchEntry(i) \o ".Id", "msg" \o ToString(i)>>
                ELSE <<BatchEntry(i) \o ".ReceiptHandle",
                       encodeURIComponent(msgs[i].ReceiptHandle)>>]
    ELSE << <<"Version", "2012-11-05">>, <<"Action", "DeleteMessage">>,
            <<"ReceiptHandle", encodeURIComponent(msgs[1].ReceiptHandle)>> >>

DeleteCall(msgs) == Event("delete", DeleteMessagesParams(msgs))

\* the test of deleteMessages as a test of presence
DeleteRequestedIfSet(opts) == opts.deleteMessages # {}

\* if (options.deleteMessages)
DeleteRequested(opts) == IsTrue(opts.deleteMessages)

\* a try block that holds the delete request only
CaughtDeleteOnly(by) == by = "delete"

\* a try block that holds the two transport requests and not the emit
CaughtTransportOnly(by) == by \in {"receive", "delete"}

\* the catch clause of executeTrigger takes whatever the try block threw
Caught(by) == by # "none"

\* if (inFlight) return rearm()
SkipTick(f) == f

\* the end of a cycle with rearm() after the try block instead of in the
\* finally clause: a cycle that raised resets inFlight and arms nothing
FinishRearmOnSuccess(c, by) ==
    /\ calls' = IF by # "none" THEN Append(c, LogError) ELSE c
    /\ thrownBy' = by
    /\ escaped' = FALSE
    /\ inFlight' = FALSE
    /\ active' = active - 1
    /\ pc' = "idle"
    /\ IF by = "none" THEN rearm(timers) ELSE UNCHANGED <<timers, intervalObj>>

\* The end of a cycle: executeTrigger returns, or its catch clause logs the
\* error of the call `by`, then the finally clause of run() resets inFlight
\* and rearms.  c is what the cycle did.
Finish(c, by) ==
    /\ calls' = IF Caught(by) THEN Append(c, LogError) ELSE c
    /\ thrownBy' = by
    /\ escaped' = (by # "none" /\ ~Caught(by))
    /\ inFlight' = FALSE
    /\ active' = active - 1
    /\ pc' = "idle"
    /\ rearm(timers)

(* ------------------------------ actions -------------------------------- *)

Init ==
    /\ phase = "init"
    /\ interval \in Intervals
    /\ unit \in Units
    /\ options \in [deleteMessages : DeleteMessagesValues,
                    visibilityTimeout : VisibilityTimeouts,
                    maxNumberOfMessages : MaxNumbersOfMessages,
                    waitTimeSeconds : WaitTimes]
    /\ startError = "none"
    /\ receiveMessageParams = <<>>
    /\ intervalValue = 0
    /\ running = FALSE
    /\ inFlight = FALSE
    /\ intervalObj = 0
    /\ timers = {}
    /\ pc = "idle"
    /\ active = 0
    /\ messagesArray = <<>>
    /\ calls = <<>>
    /\ response = Pending
    /\ stopCalls = 0
    /\ thrownBy = "none"
    /\ escaped = FALSE

\* The host calls trigger(): a check throws, or the first timer is armed
\* with delay 0 and the handle with closeFunction is returned.
Start ==
    /\ phase = "init"
    /\ startError' = StartError(interval, unit, options)
    /\ IF StartError(interval, unit, options) # "none"
       THEN /\ phase' = "failed"
            /\ UNCHANGED <<receiveMessageParams, intervalValue, running,
                           intervalObj, timers>>
       ELSE /\ phase' = "started"
            /\ receiveMessageParams' = BuildReceiveMessageParams(options)
            /\ intervalValue' = IntervalSeconds(interval, unit, options) * 1000
            /\ running' = TRUE
            /\ timers' = SetTimeout(timers, intervalObj, 0)
            /\ intervalObj' = FreshId(timers, intervalObj)
    /\ UNCHANGED <<config, stopCalls, inFlight, pc, active, messagesArray, calls,
                   response, thrownBy, escaped>>

\* run() as the callback of a fixed-rate timer: the timer stays pending and
\* inFlight is not tested
TimerFireFixedRate(t) ==
    /\ t \in timers
    /\ inFlight' = TRUE
    /\ active' = active + 1
    /\ pc' = "receive"
    /\ calls' = <<ReceiveCall>>
    /\ messagesArray' = <<>>
    /\ response' = Pending
    /\ thrownBy' = "none"
    /\ escaped' = FALSE
    /\ UNCHANGED <<timers, intervalObj>>
    /\ UNCHANGED <<config, stopCalls, phase, startError, receiveMessageParams,
                   intervalValue, running>>

\* run() that arms the next timer when the cycle starts instead of when it
\* completes
TimerFireRearmFirst(t) ==
    /\ t \in timers
    /\ rearm(timers \ {t})
    /\ IF SkipTick(inFlight)
       THEN UNCHANGED <<inFlight, pc, active, messagesArray, calls,
                        response, thrownBy, escaped>>
       ELSE /\ inFlight' = TRUE
            /\ active' = active + 1
            /\ pc' = "receive"
            /\ calls' = <<ReceiveCall>>
            /\ messagesArray' = <<>>
            /\ response' = Pending
            /\ thrownBy' = "none"
            /\ escaped' = FALSE
    /\ UNCHANGED <<config, stopCalls, phase, startError, receiveMessageParams,
                   intervalValue, running>>

\* The timer t fires: run() up to the await of the receive request.
TimerFire(t) ==
    /\ t \in timers
    /\ IF SkipTick(inFlight)
       THEN /\ rearm(timers \ {t})
            /\ UNCHANGED <<inFlight, pc, active, messagesArray, calls,
                           response, thrownBy, escaped>>
       ELSE /\ inFlight' = TRUE
            /\ active' = active + 1
            /\ pc' = "receive"
            /\ calls' = <<ReceiveCall>>
            /\ messagesArray' = <<>>
            /\ response' = Pending
            /\ thrownBy' = "none"
            /\ escaped' = FALSE
            /\ timers' = timers \ {t}
            /\ UNCHANGED intervalObj
    /\ UNCHANGED <<config, stopCalls, phase, startError, receiveMessageParams,
                   intervalValue, running>>

\* executeTrigger with the emit before the delete request
ReceiveReturnEmitFirst(resp, emitOk) ==
    /\ pc = "receive"
    /\ response' = resp
    /\ IF resp.kind = "none"
       THEN /\ UNCHANGED messagesArray
            /\ Finish(calls, "none")
       ELSE /\ messagesArray' = Normalize(resp)
            /\ IF emitOk /\ DeleteRequested(options)
               THEN /\ calls' = calls \o <<EmitCall(Normalize(resp)),
                                           DeleteCall(Normalize(resp))>>
                    /\ pc' = "delete"
                    /\ UNCHANGED <<inFlight, active, timers, intervalObj,
                                   thrownBy, escaped>>
               ELSE Finish(Append(calls, EmitCall(Normalize(resp))),
                           IF emitOk THEN "none" ELSE "emit")
    /\ UNCHANGED <<config, stopCalls, phase, startError, receiveMessageParams,
                   intervalValue, running>>

\* The receive request returns resp: executeTrigger up to the await of the
\* delete request, or to its end.  emitOk: this.emit returns normally.
ReceiveReturn(resp, emitOk) ==
    /\ pc = "receive"
    /\ response' = resp
    /\ IF resp.kind = "none"
       THEN /\ UNCHANGED messagesArray
            /\ Finish(calls, "none")
       ELSE /\ messagesArray' = Normalize(resp)
            /\ IF DeleteRequested(options)
               THEN /\ calls' = Append(calls, DeleteCall(Normalize(resp)))
                    /\ pc' = "delete"
                    /\ UNCHANGED <<inFlight, active, timers, intervalObj,
                                   thrownBy, escaped>>
               ELSE Finish(Append(calls, EmitCall(Normalize(resp))),
                           IF emitOk THEN "none" ELSE "emit")
    /\ UNCHANGED <<config, stopCalls, phase, startError, receiveMessageParams,
                   intervalValue, running>>

\* The receive request fails.
ReceiveFail ==
    /\ pc = "receive"
    /\ Finish(calls, "receive")
    /\ UNCHANGED <<config, stopCalls, phase, startError, receiveMessageParams,
                   intervalValue, running, messagesArray, response>>

\* The delete request returns: the messages are emitted.
DeleteReturn(emitOk) ==
    /\ pc = "delete"
    /\ Finish(Append(calls, EmitCall(messagesArray)),
              IF emitOk THEN "none" ELSE "emit")
    /\ UNCHANGED <<config, stopCalls, phase, startError, receiveMessageParams,
                   intervalValue, running, messagesArray, response>>

\* a delete failure that is caught where it happens, the emit following
DeleteFailStillEmits ==
    /\ pc = "delete"
    /\ calls' = calls \o <<LogError, EmitCall(messagesArray)>>
    /\ thrownBy' = "delete"
    /\ escaped' = FALSE
    /\ inFlight' = FALSE
    /\ active' = active - 1
    /\ pc' = "idle"
    /\ rearm(timers)
    /\ UNCHANGED <<config, stopCalls, phase, startError, receiveMessageParams,
                   intervalValue, running, messagesArray, response>>

\* The delete request fails.
DeleteFail ==
    /\ pc = "delete"
    /\ Finish(calls, "delete")
    /\ UNCHANGED <<config, stopCalls, phase, startError, receiveMessageParams,
                   intervalValue, running, messagesArray, response>>

\* closeFunction() that flips running instead of clearing it
closeFunctionToggle ==
    /\ phase = "started"
    /\ stopCalls < MaxStopCalls
    /\ stopCalls' = stopCalls + 1
    /\ running' = ~running
    /\ timers' = ClearTimeout(timers, intervalObj)
    /\ UNCHANGED <<config, phase, startError, receiveMessageParams,
                   intervalValue, inFlight, intervalObj, pc, active,
                   messagesArray, calls, response, thrownBy, escaped>>

\* The host calls closeFunction().
closeFunction ==
    /\ phase = "started"
    /\ stopCalls < MaxStopCalls
    /\ stopCalls' = stopCalls + 1
    /\ running' = FALSE
    /\ timers' = ClearTimeout(timers, intervalObj)
    /\ UNCHANGED <<config, phase, startError, receiveMessageParams,
                   intervalValue, inFlight, intervalObj, pc, active,
                   messagesArray, calls, response, thrownBy, escaped>>

Next ==
    \/ Start
    \/ \E t \in timers : TimerFire(t)
    \/ \E emitOk \in BOOLEAN : ReceiveReturn(NoMessage, emitOk)
    \/ \E m \in Messages, emitOk \in BOOLEAN : ReceiveReturn(OneMessage(m), emitOk)
    \/ \E s \in MessageArrays, emitOk \in BOOLEAN : ReceiveReturn(ManyMessages(s), emitOk)
    \/ ReceiveFail
    \/ \E emitOk \in BOOLEAN : DeleteReturn(emitOk)
    \/ DeleteFail
    \/ closeFunction

Spec == Init /\ [][Next]_vars

\* The event loop fires a pending timer, and a transport call that was
\* issued returns or fails.
Fairness ==
    /\ WF_vars(\E t \in timers : TimerFire(t))
    /\ WF_vars(ReceiveFail \/ \E emitOk \in BOOLEAN :
                  \/ ReceiveReturn(NoMessage, emitOk)
                  \/ \E m \in Messages : ReceiveReturn(OneMessage(m), emitOk)
                  \/ \E s \in MessageArrays : ReceiveReturn(ManyMessages(s), emitOk))
    /\ WF_vars(DeleteFail \/ \E emitOk \in BOOLEAN : DeleteReturn(emitOk))

FairSpec == Spec /\ Fairness

(* ---------------------------- properties ------------------------------- *)

CallIndices(op) == {i \in 1..Len(calls) : calls[i].op = op}

HasCall(op) == CallIndices(op) # {}

\* closeFunction() has been called
Stopped == phase = "started" /\ ~running

\* C1: at most one executeTrigger invocation is active; an invocation only
\* starts when none is active and inFlight is false, and a timer that fires
\* while inFlight is true starts none.
C1_AtMostOneCycle ==
    [][/\ active' <= 1
       /\ active' > active => (active = 0 /\ ~inFlight)
       /\ inFlight' <=> active' = 1]_vars

\* a second cycle is running, started after the first one completed
C1_Witness == active = 1 /\ inFlight /\ intervalObj = 2 /\ pc = "delete"

\* C2 as stated: where a delete call has been issued, the emission of the
\* cycle's messages came before it.
C2_EmitBeforeDelete ==
    \A i \in CallIndices("delete") : \E j \in CallIndices("emit") : j < i

\* C2 amended: with deleteMessages enabled the order of a cycle is receive,
\* delete, emit: an emission is preceded by the delete call, which is
\* preceded by the receive call.
C2_DeleteBeforeEmit ==
    IsTrue(options.deleteMessages) =>
        \A i \in CallIndices("emit") :
            \E j \in CallIndices("delete") :
                /\ j < i
                /\ \E k \in CallIndices("receive") : k < j

C2_Witness ==
    IsTrue(options.deleteMessages) /\ HasCall("emit") /\ Len(messagesArray) = 2

\* C3 as stated: a cycle whose delete call failed has emitted its messages.
C3_EmitDespiteDeleteFailure ==
    (pc = "idle" /\ thrownBy = "delete") => HasCall("emit")

\* C3 amended: a cycle that received messages and whose delete call failed
\* emits nothing; the failure is logged and the cycle ends.
C3_DeleteFailurePreventsEmit ==
    (pc = "idle" /\ thrownBy = "delete") =>
        /\ Len(messagesArray) >= 1
        /\ ~HasCall("emit")
        /\ calls[Len(calls)] = LogError
        /\ ~inFlight

C3_Witness ==
    pc = "idle" /\ thrownBy = "delete" /\ Len(messagesArray) = 2 /\ timers # {}

\* C4: once closeFunction() has been called, no invocation starts, no timer
\* is armed and running stays false; the call itself leaves the cycle in
\* flight as it is, and the completion of that cycle arms nothing.
C4_NoCycleAfterStop ==
    [][/\ Stopped => (Stopped' /\ active' <= active /\ timers' \subseteq timers)
       /\ (running /\ ~running') =>
              UNCHANGED <<pc, inFlight, active, calls, messagesArray, thrownBy>>
       /\ (Stopped /\ inFlight /\ ~inFlight') => (timers' = {} /\ pc' = "idle")]_vars

\* the first cycle was in flight when closeFunction() was called and has
\* completed since
C4_Witness ==
    /\ Stopped /\ pc = "idle" /\ ~inFlight /\ intervalObj = 1
    /\ HasCall("emit") /\ timers = {}

\* C5: a cycle whose receive call failed has emitted nothing and deleted
\* nothing, its error is logged and does not leave executeTrigger, and if
\* running is still true the timer of intervalObj is pending with delay
\* intervalValue.
C5_ReceiveFailure ==
    (pc = "idle" /\ thrownBy = "receive") =>
        /\ ~HasCall("emit")
        /\ ~HasCall("delete")
        /\ ~escaped
        /\ calls = <<ReceiveCall, LogError>>
        /\ ~inFlight
        /\ running => [id |-> intervalObj, delay |-> intervalValue] \in timers

C5_Witness ==
    pc = "idle" /\ thrownBy = "receive" /\ running /\ timers # {}

\* a cycle starts
CycleStart == ~inFlight /\ inFlight'

\* a cycle completes
CycleEnd == inFlight /\ ~inFlight'

\* C6: when a cycle completes, however it ended, inFlight is false and,
\* running being true, a timer is pending; and if trigger() returned and
\* closeFunction() is never called, cycles start infinitely often.
C6_ScheduleNeverHalts ==
    /\ [][(CycleEnd /\ running) =>
              (timers' # {} /\ active' = 0 /\ pc' = "idle")]_vars
    /\ (<>(phase = "started") /\ [](phase = "started" => running))
          => []<><<CycleStart>>_vars

\* a cycle whose emit failed has completed and the next timer is pending
C6_Witness ==
    running /\ pc = "idle" /\ thrownBy = "emit" /\ ~inFlight /\ timers # {}

\* an option is set to a value outside its documented range
OutOfRange(opts) ==
    \/ \E v \in opts.visibilityTimeout : v < 0 \/ v > 43200
    \/ \E v \in opts.maxNumberOfMessages : v < 1 \/ v > 10
    \/ \E v \in opts.waitTimeSeconds : v < 0 \/ v > 20

\* an option is set to a value other than 0 outside its documented range
NonZeroOutOfRange(opts) ==
    \/ \E v \in opts.visibilityTimeout : v # 0 /\ (v < 0 \/ v > 43200)
    \/ \E v \in opts.maxNumberOfMessages : v # 0 /\ (v < 1 \/ v > 10)
    \/ \E v \in opts.waitTimeSeconds : v # 0 /\ (v < 0 \/ v > 20)

\* C7 as stated: with an option out of range and a valid interval,
\* trigger() returns and the scheduler runs (the violation is left to the
\* cycles).
C7_DetectedPerCycle ==
    (phase # "init" /\ OutOfRange(options) /\ interval = 1) =>
        (phase = "started" /\ running /\ ~HasCall("receive"))

\* C7 amended: with an option set to a non-zero value outside its range,
\* trigger() throws at start: no timer is armed, no cycle runs, nothing is
\* logged and no receive call is issued.
C7_DetectedAtStart ==
    (phase # "init" /\ NonZeroOutOfRange(options)) =>
        /\ phase = "failed"
        /\ startError \in {"visibilityTimeout", "maxNumberOfMessages", "waitTimeSeconds"}
        /\ timers = {}
        /\ ~running
        /\ active = 0
        /\ calls = <<>>

C7_Witness ==
    /\ phase = "failed" /\ options.visibilityTimeout = {50000}
    /\ startError = "visibilityTimeout" /\ interval = 1

\* C8 as stated: the error of a failed emit leaves executeTrigger and is
\* not logged.
C8_EmitFailurePropagates ==
    (pc = "idle" /\ thrownBy = "emit") => (escaped /\ ~HasCall("log"))

\* C8 amended: the error of a failed emit is caught by the catch clause of
\* executeTrigger: it is logged like a transport failure and does not leave
\* the cycle.
C8_EmitFailureCaught ==
    (pc = "idle" /\ thrownBy = "emit") =>
        /\ ~escaped
        /\ Len(calls) >= 2
        /\ calls[Len(calls)] = LogError
        /\ calls[Len(calls) - 1].op = "emit"

C8_Witness ==
    pc = "idle" /\ thrownBy = "emit" /\ ~IsTrue(options.deleteMessages)

\* C9: with deleteMessages false (or not set) no delete call is issued.
C9_NoDeleteWhenDisabled ==
    ~IsTrue(options.deleteMessages) => (~HasCall("delete") /\ pc # "delete")

C9_Witness ==
    /\ options.deleteMessages = {FALSE}
    /\ HasCall("emit") /\ Len(messagesArray) >= 2 /\ pc = "idle"

\* the delete request C10 expects for the messages msgs
ExpectedDelete(params, msgs) ==
    IF Len(msgs) = 1
    THEN /\ Len(params) = 3
         /\ params[2] = <<"Action", "DeleteMessage">>
         /\ params[3] = <<"ReceiptHandle", encodeURIComponent(msgs[1].ReceiptHandle)>>
    ELSE /\ Len(params) = 2 + 2 * Len(msgs)
         /\ params[2] = <<"Action", "DeleteMessageBatch">>
         /\ \A i \in 1..Len(msgs) :
               /\ params[2 * i + 1] =
                     <<"DeleteMessageBatchRequestEntry." \o ToString(i) \o ".Id",
                       "msg" \o ToString(i)>>
               /\ params[2 * i + 2] =
                     <<"DeleteMessageBatchRequestEntry." \o ToString(i) \o ".ReceiptHandle",
                       encodeURIComponent(msgs[i].ReceiptHandle)>>

\* C10: with deleteMessages true a cycle that received N >= 1 messages
\* issues exactly one delete call: DeleteMessage with the receipt handle of
\* the message for N = 1, DeleteMessageBatch with the N entries msg1..msgN,
\* the i-th with the receipt handle of the i-th message, for N >= 2.
C10_OneDeleteCall ==
    (IsTrue(options.deleteMessages) /\ Len(messagesArray) >= 1) =>
        /\ Cardinality(CallIndices("delete")) = 1
        /\ \A i \in CallIndices("delete") :
              ExpectedDelete(calls[i].arg, messagesArray)

C10_Witness ==
    /\ IsTrue(options.deleteMessages) /\ pc = "idle" /\ HasCall("emit")
    /\ Len(messagesArray) >= 2
    /\ messagesArray[1] # messagesArray[2]

\* the factor of the unit, in milliseconds
UnitFactorMs ==
    CASE unit = "seconds" -> 1000
      [] unit = "minutes" -> 60000
      [] unit = "hours" -> 3600000

\* waitTimeSeconds, 0 when it is not set
WaitOrZero ==
    IF options.waitTimeSeconds = {} THEN 0
    ELSE CHOOSE v \in options.waitTimeSeconds : TRUE

\* C11: every timer that is armed after trigger() returned has the delay
\* max(interval * unitFactor, waitTimeSeconds * 1000) milliseconds.
C11_RearmDelay ==
    [][phase = "started" =>
          \A t \in timers' \ timers :
              t.delay = IF interval * UnitFactorMs >= WaitOrZero * 1000
                        THEN interval * UnitFactorMs
                        ELSE WaitOrZero * 1000]_vars

\* interval 1 second with waitTimeSeconds 20: the timer of 20000 ms
C11_Witness ==
    /\ interval = 1 /\ unit = "seconds" /\ options.waitTimeSeconds = {20}
    /\ [id |-> intervalObj, delay |-> 20000] \in timers
    /\ HasCall("receive")

\* the normalized delay exceeds 2147483647 ms (stated on the seconds:
\* s * 1000 > 2147483647 exactly when s >= 2147484)
DelayExceedsTimerMax ==
    \/ interval * (UnitFactorMs \div 1000) >= 2147484
    \/ WaitOrZero >= 2147484

\* C12: with interval <= 0 or a normalized delay above 2147483647 ms,
\* trigger() throws: no timer was ever armed, no cycle runs and no receive
\* call is issued.
C12_InvalidIntervalFailsAtStart ==
    (phase # "init" /\ (interval <= 0 \/ DelayExceedsTimerMax)) =>
        /\ phase = "failed"
        /\ startError # "none"
        /\ timers = {}
        /\ intervalObj = 0
        /\ ~running
        /\ active = 0
        /\ ~inFlight
        /\ calls = <<>>

C12_Witness ==
    /\ phase = "failed" /\ interval = 597 /\ unit = "hours"
    /\ startError = "intervalTooLarge"

\* C13: a call of closeFunction() after the first one changes nothing:
\* running stays false, no timer is pending and the cycle in flight is as
\* it was.
C13_StopIdempotent ==
    [][(stopCalls >= 1 /\ stopCalls' = stopCalls + 1) =>
          /\ ~running'
          /\ timers' = {}
          /\ UNCHANGED <<phase, running, timers, intervalObj, inFlight, pc,
                         active, calls, messagesArray, response, thrownBy,
                         escaped>>]_vars

\* closeFunction() was called twice while a cycle was in flight
C13_Witness == stopCalls = 2 /\ ~running /\ inFlight /\ pc = "delete"

\* C14: while a cycle is in flight no timer is pending.
C14_NoTimerWhileInFlight == inFlight => timers = {}

C14_Witness ==
    inFlight /\ pc = "delete" /\ running /\ intervalObj = 1 /\ timers = {}

\* the receive request params carries name with the value v
HasParam(params, name, v) ==
    \E i \in 1..Len(params) : params[i] = <<name, ToString(v)>>

\* the receive request params carries name
HasParamNamed(params, name) ==
    \E i \in 1..Len(params) : params[i][1] = name

\* C15's statement for one option: the parameter is carried with the
\* configured value when the option is set inside lo..hi, and is absent
\* otherwise
CarriedIffSetInRange(params, name, opt, lo, hi) ==
    IF \E v \in opt : lo <= v /\ v <= hi
    THEN \A v \in opt : HasParam(params, name, v)
    ELSE ~HasParamNamed(params, name)

\* C15 as stated: every receive request carries VisibilityTimeout,
\* MaxNumberOfMessages and WaitTimeSeconds exactly when the option is set to
\* a value of its range, 0 included for the first and the last.
C15_ParamsIffSetInRange ==
    \A i \in CallIndices("receive") :
        /\ CarriedIffSetInRange(calls[i].arg, "VisibilityTimeout",
                                options.visibilityTimeout, 0, 43200)
        /\ CarriedIffSetInRange(calls[i].arg, "MaxNumberOfMessages",
                                options.maxNumberOfMessages, 1, 10)
        /\ CarriedIffSetInRange(calls[i].arg, "WaitTimeSeconds",
                                options.waitTimeSeconds, 0, 20)

\* C16: once closeFunction() has been called the system reaches, and then
\* stays in, the state with no pending timer and no cycle in flight.
C16_QuiescenceAfterStop ==
    [](Stopped => <>[](timers = {} /\ ~inFlight))

\* the cycle that was in flight at the call has ended in its catch clause
C16_Witness ==
    /\ Stopped /\ timers = {} /\ ~inFlight /\ pc = "idle"
    /\ thrownBy = "delete" /\ intervalObj = 1

\* the items C17 expects of the emission for the response resp
ExpectedItems(resp) ==
    IF resp.kind = "object"
    THEN <<[json |-> resp.Message]>>
    ELSE [k \in 1..Len(resp.Message) |-> [json |-> resp.Message[k]]]

\* C17: a cycle emits at most once, the emission holds the messages of the
\* response of that cycle, all of them and in their order; a cycle that
\* ended without a failure and with messages has emitted; a response
\* without messages gives no emission, no delete call and no log.
C17_OneEmissionOfTheCycle ==
    /\ Cardinality(CallIndices("emit")) <= 1
    /\ \A i \in CallIndices("emit") :
          /\ response.kind \in {"object", "array"}
          /\ calls[i].arg = ExpectedItems(response)
    /\ (pc = "idle" /\ thrownBy = "none" /\ response.kind \in {"object", "array"})
          => HasCall("emit")
    /\ response.kind = "none" =>
          (~HasCall("emit") /\ ~HasCall("delete") /\ ~HasCall("log") /\ pc = "idle")

\* the second cycle has emitted the three messages of its response
C17_Witness ==
    /\ intervalObj = 2 /\ pc = "idle" /\ HasCall("emit")
    /\ response.kind = "array" /\ Len(response.Message) = 3
    /\ response.Message[1] # response.Message[3]

\* C18: at most one timer is pending and intervalObj is its handle; after
\* closeFunction() none is pending.
C18_OneTimerReferenced ==
    /\ Cardinality(timers) <= 1
    /\ \A t \in timers : t.id = intervalObj
    /\ Stopped => timers = {}

\* closeFunction() has cleared the timer that rearm() armed
C18_Witness ==
    /\ Stopped /\ timers = {} /\ intervalObj = 2 /\ pc = "idle"
    /\ thrownBy = "none" /\ response.kind = "none"

\* a pending timer fires (closeFunction() is the other step that removes one)
Fired == phase = "started" /\ stopCalls' = stopCalls /\ \E t \in timers : t \notin timers'

\* C19: every timer that fires finds inFlight false and starts a cycle.
C19_EveryFireStartsCycle ==
    [][Fired => (~inFlight /\ inFlight' /\ active' = active + 1 /\ pc' = "receive")]_vars

C19_Witness == inFlight /\ pc = "receive" /\ intervalObj = 2 /\ running

\* C20: with deleteMessages enabled nothing is emitted while the delete
\* request is pending nor after it failed: a cycle that emitted has issued
\* its delete request and got its answer.
C20_EmitOnlyAfterDeleteSucceeded ==
    IsTrue(options.deleteMessages) =>
        /\ pc = "delete" => ~HasCall("emit")
        /\ thrownBy = "delete" => ~HasCall("emit")
        /\ HasCall("emit") =>
              (HasCall("delete") /\ pc = "idle" /\ thrownBy \in {"none", "emit"})

C20_Witness ==
    /\ IsTrue(options.deleteMessages) /\ pc = "idle" /\ thrownBy = "none"
    /\ HasCall("emit") /\ Len(messagesArray) = 1

====
